---- MODULE Spec2Model ----
(***************************************************************************)
(* State-machine model of the device / swap-chain / resource lifecycle     *)
(* manager in DXHelpers.h and DXHelpers.cpp: one DXDevice shared by the    *)
(* DXWindowContexts of the set Contexts.                                   *)
(*                                                                         *)
(* Every Direct3D / DXGI / Direct2D call is an input: the action draws a   *)
(* Script that says which call (if any) returns a failing HRESULT.         *)
(***************************************************************************)
EXTENDS Integers, Sequences, FiniteSets, TLC

VARIABLES
    device,     \* the DXDevice: its three ComPtr members and m_generation
    win,        \* the DXWindowContexts, by name
    forceDpi,   \* DXWindowContext::m_forceDpi
    proc,       \* "running", "terminated" (std::terminate) or "crashed"
    op          \* the last operation: its name, inputs, exception and event log

vars == <<device, win, forceDpi, proc, op>>

----------------------------------------------------------------------------
(* Bounds of the model.                                                    *)

MaxGen == 2          \* m_generation is explored up to this value
MaxDevGen == 6       \* the same, for the DXDevice-only specification
MaxDim == 2          \* client-area widths and heights are 0..MaxDim
MaxRes == 2          \* a window context registers up to this many brushes

Contexts == {"A", "B"}

----------------------------------------------------------------------------
(* HRESULTs, as the 32-bit signed values of the Windows headers.           *)

S_OK == 0
E_NOINTERFACE == -2147467262
D2DERR_RECREATE_TARGET == -2003238900
DXGI_ERROR_DEVICE_REMOVED == -2005270523

FAILED(hr) == hr < 0

NoException == [kind |-> "none", hr |-> S_OK]

\* Mutant of WinException::Throw: every failure is taken for a lost device.
Throw_AlwaysDeviceLost(hr) == [kind |-> "DeviceLostException", hr |-> hr]

\* WinException::Throw: the exception type depends on the error.
WinException_Throw(hr) ==
    IF hr \in {D2DERR_RECREATE_TARGET, DXGI_ERROR_DEVICE_REMOVED}
    THEN [kind |-> "DeviceLostException", hr |-> hr]
    ELSE [kind |-> "WinException", hr |-> hr]

----------------------------------------------------------------------------
(* Scripts: the outcome of the platform calls made by one call of a method.*)
(* At most one throwing call site fails (site, hr; at is the index of the  *)
(* resource whose CreateSolidColorBrush fails); d2d is the HRESULT of      *)
(* ID2D1Factory::CreateDevice; ub is what a call through a null pointer    *)
(* does: the process dies, or a structured exception unwinds the stack.    *)

DeviceSites == {"D3D11CreateDevice", "QueryInterface"}
SurfaceSites ==
    <<"GetAdapter", "GetParent", "CreateSwapChain", "GetBuffer",
      "CreateDeviceContext", "CreateBitmapFromDxgiSurface">>
DrawSites == {"EndDraw", "Present"}

Range(f) == {f[i] : i \in DOMAIN f}

LostCode(site) ==
    IF site \in {"EndDraw", "CreateSolidColorBrush", "CreateDeviceContext",
                 "CreateBitmapFromDxgiSurface"}
    THEN D2DERR_RECREATE_TARGET
    ELSE DXGI_ERROR_DEVICE_REMOVED

FailCodes(site) ==
    IF site = "QueryInterface" THEN {E_NOINTERFACE}
    ELSE {E_NOINTERFACE, LostCode(site)}

OkScript == [site |-> "none", hr |-> S_OK, at |-> 0, d2d |-> S_OK, ub |-> "crash"]

StatusAt(s, site) == IF s.site = site THEN s.hr ELSE S_OK

----------------------------------------------------------------------------
(* Handles.  A device-side object is identified by the hardware device     *)
(* instance it belongs to (inst); a swap chain, a device context and a     *)
(* brush also by the build of the window's surface that made them (id).    *)
(* A new object gets the least identity that is not held at the start of   *)
(* the operation and was not given out during it.                          *)

NullSwapChain == [id |-> 0, inst |-> 0, width |-> 0, height |-> 0]
NullContext == [id |-> 0, inst |-> 0, dpi |-> 0]
NullBrush == [id |-> 0, inst |-> 0, color |-> "none"]

Fresh(used) ==
    CHOOSE i \in 1..(Cardinality(used) + 1) :
        /\ i \notin used
        /\ \A j \in 1..(i - 1) : j \in used

HeldInsts(d, w) ==
    ({d.d3dContext, d.dxgiDevice, d.d2dDevice}
        \cup {w[c].swapChain.inst : c \in Contexts}
        \cup {w[c].d2dContext.inst : c \in Contexts}
        \cup UNION {{w[c].resources[i].ptr.inst : i \in DOMAIN w[c].resources}
                        : c \in Contexts}) \ {0}

HeldIds(wc) ==
    ({wc.swapChain.id, wc.d2dContext.id}
        \cup {wc.resources[i].ptr.id : i \in DOMAIN wc.resources}) \ {0}

----------------------------------------------------------------------------
(* The machine a method runs on: the objects, the identities given out,    *)
(* the events so far, the exception in flight, and whether the process     *)
(* died in undefined behaviour.                                            *)

Machine(c) ==
    [device |-> device, win |-> win,
     insts |-> HeldInsts(device, win), ids |-> HeldIds(win[c]),
     log |-> <<>>, exc |-> NoException, crashed |-> FALSE]

Emit(m, e) == [m EXCEPT !.log = Append(@, e)]
Ev(name) == [ev |-> name]
Raise(m, hr) == [m EXCEPT !.exc = WinException_Throw(hr)]
Threw(m) == m.exc.kind # "none" \/ m.crashed

\* The statements F that follow a call: skipped when the call threw.
Then(m, F(_)) == IF Threw(m) THEN m ELSE F(m)

\* HR(call): the call is made, and a failing HRESULT is thrown.
HR(m, site, hr) ==
    LET m1 == Emit(m, [ev |-> site, hr |-> hr]) IN
    IF FAILED(hr) THEN Raise(m1, hr) ELSE m1

\* A call through a null pointer.
NullCall(m, site, s) ==
    IF s.ub = "crash"
    THEN [Emit(m, Ev(site)) EXCEPT !.crashed = TRUE]
    ELSE [Emit(m, Ev(site)) EXCEPT
            !.exc = [kind |-> "StructuredException", hr |-> S_OK]]

----------------------------------------------------------------------------
(* DXDevice                                                                *)

DXDevice_IsInitialized(d) == d.d2dDevice # 0

DXDevice_Reset(d) ==
    [d EXCEPT !.d3dContext = 0, !.dxgiDevice = 0, !.d2dDevice = 0]

\* The members after the three creation calls returned hrD2d for
\* ID2D1Factory::CreateDevice: its HRESULT is not examined, so a failed call
\* leaves the local d2dDevice null and the members are assigned all the same.
\* m_generation is a uint32_t; the model explores it far below its wrap-around.
DXDevice_Members(d, i, hrD2d) ==
    [d3dContext |-> i,
     dxgiDevice |-> i,
     d2dDevice |-> IF FAILED(hrD2d) THEN 0 ELSE i,
     generation |-> d.generation + 1]

\* The rest of EnsureInitialized once D3D11CreateDevice made the device i.
DXDevice_Assign(m, d, i, s) ==
    Then(HR([m EXCEPT !.insts = @ \cup {i}],
            "QueryInterface", StatusAt(s, "QueryInterface")),
         LAMBDA m3 :
            [Emit(m3, [ev |-> "CreateDevice", hr |-> s.d2d]) EXCEPT
                !.device = DXDevice_Members(d, i, s.d2d)])

DXDevice_EnsureInitialized(m, s) ==
    IF DXDevice_IsInitialized(m.device)
    THEN Emit(m, [ev |-> "DXDevice::EnsureInitialized", initialized |-> TRUE])
    ELSE Then(HR(Emit(m, [ev |-> "DXDevice::EnsureInitialized",
                          initialized |-> FALSE]),
                 "D3D11CreateDevice", StatusAt(s, "D3D11CreateDevice")),
              LAMBDA m1 : DXDevice_Assign(m1, m.device, Fresh(m1.insts), s))

----------------------------------------------------------------------------
(* Resources                                                               *)

Resource2DBase_IsInitialized(r) == r.ptr # NullBrush

Resource2DBase_Reset(r) == [r EXCEPT !.ptr = NullBrush]

\* SolidColorBrush::Initialize of resource i of window c against context ctx.
SolidColorBrush_Initialize(m, c, i, ctx, s) ==
    Then(HR(Emit(m, [ev |-> "Initialize", res |-> i, ctx |-> ctx.id,
                     generation |-> m.device.generation]),
            "CreateSolidColorBrush",
            IF s.at = i THEN StatusAt(s, "CreateSolidColorBrush") ELSE S_OK),
         LAMBDA m1 :
            [m1 EXCEPT !.win[c].resources[i].ptr =
                [id |-> ctx.id, inst |-> ctx.inst,
                 color |-> m.win[c].resources[i].color]])

\* SetColor: pushed to the brush if there is one, and stored.
SolidColorBrush_SetColor(r, newColor) ==
    [r EXCEPT !.ptr = IF @ # NullBrush THEN [@ EXCEPT !.color = newColor] ELSE @,
              !.color = newColor]

\* A SolidColorBrush as its default constructor leaves it.
SolidColorBrush_New == [ptr |-> NullBrush, color |-> "black"]

ResourceList2D_Add(rs, r) == Append(rs, r)

\* Mutant of ResetAll: the last resource is left as it is.
ResetAll_KeepsLast(rs) ==
    [i \in DOMAIN rs |-> IF i = Len(rs) THEN rs[i] ELSE Resource2DBase_Reset(rs[i])]

ResourceList2D_ResetAll(rs) ==
    [i \in DOMAIN rs |-> Resource2DBase_Reset(rs[i])]

RECURSIVE InitializeFrom(_, _, _, _, _)
InitializeFrom(m, c, i, ctx, s) ==
    IF i > Len(m.win[c].resources) THEN m
    ELSE IF Resource2DBase_IsInitialized(m.win[c].resources[i])
    THEN InitializeFrom(m, c, i + 1, ctx, s)
    ELSE Then(SolidColorBrush_Initialize(m, c, i, ctx, s),
              LAMBDA m1 : InitializeFrom(m1, c, i + 1, ctx, s))

ResourceList2D_EnsureInitialized(m, c, ctx, s) ==
    InitializeFrom(Emit(m, Ev("ResourceList2D::EnsureInitialized")), c, 1, ctx, s)

----------------------------------------------------------------------------
(* DXWindowContext                                                         *)

\* HR(...) of the calls of SurfaceSites from the k-th on, up to and including
\* the n-th, stopping at the first that fails.
RECURSIVE SurfaceCalls(_, _, _, _)
SurfaceCalls(m, k, n, s) ==
    IF k > n THEN m
    ELSE Then(HR(m, SurfaceSites[k], StatusAt(s, SurfaceSites[k])),
              LAMBDA m1 : SurfaceCalls(m1, k + 1, n, s))

\* Mutant of ResetWindow: the swap chain is kept.
ResetWindow_KeepsSwapChain(m, c) ==
    [Emit(m, Ev("ResetWindow")) EXCEPT !.win[c].d2dContext = NullContext]

DXWindowContext_ResetWindow(m, c) ==
    [Emit(m, Ev("ResetWindow")) EXCEPT
        !.win[c].d2dContext = NullContext,
        !.win[c].swapChain = NullSwapChain]

\* Mutant of ResetDevice: the device is reset whatever its generation.
ResetDevice_NoGenerationCheck(m, c) ==
    LET m1 == [Emit(m, [ev |-> "ResetDevice",
                        captured |-> m.win[c].deviceGeneration,
                        generation |-> m.device.generation])
                EXCEPT !.win[c].d2dContext = NullContext,
                       !.win[c].swapChain = NullSwapChain,
                       !.win[c].resources = ResourceList2D_ResetAll(@)]
    IN
    [Emit(m1, [ev |-> "DXDevice::Reset", inst |-> m1.device.dxgiDevice])
        EXCEPT !.device = DXDevice_Reset(@)]

\* Mutant of the end of ResetDevice: the captured generation is cleared
\* along with the device.
ResetCapturedDevice_ForgetsGeneration(m, c) ==
    IF m.win[c].deviceGeneration = m.device.generation
    THEN [Emit(m, [ev |-> "DXDevice::Reset", inst |-> m.device.dxgiDevice])
            EXCEPT !.device = DXDevice_Reset(@), !.win[c].deviceGeneration = 0]
    ELSE m

\* The end of ResetDevice: the device is reset if it is the one captured.
ResetCapturedDevice(m, c) ==
    IF m.win[c].deviceGeneration = m.device.generation
    THEN [Emit(m, [ev |-> "DXDevice::Reset", inst |-> m.device.dxgiDevice])
            EXCEPT !.device = DXDevice_Reset(@)]
    ELSE m

DXWindowContext_ResetDevice(m, c) ==
    ResetCapturedDevice(
        [Emit(DXWindowContext_ResetWindow(
                 Emit(m, [ev |-> "ResetDevice",
                          captured |-> m.win[c].deviceGeneration,
                          generation |-> m.device.generation]), c),
              Ev("ResetAll"))
            EXCEPT !.win[c].resources = ResourceList2D_ResetAll(@)], c)

\* Mutant of the end of EnsureInitialized: the context keeps the default
\* DPI, SetDpi(m_dpi) being left out.
InitializeAndAssign_DefaultDpi(m, c, s, id) ==
    LET w == m.win[c]
        dxgiSwapChain == [id |-> id, inst |-> m.device.dxgiDevice,
                          width |-> w.pixelSize.width,
                          height |-> w.pixelSize.height]
        d2dContext == [id |-> id, inst |-> m.device.d2dDevice, dpi |-> 96]
    IN
    Then(ResourceList2D_EnsureInitialized(
            [m EXCEPT !.ids = @ \cup {id}], c, d2dContext, s),
         LAMBDA m5 : [m5 EXCEPT !.win[c].swapChain = dxgiSwapChain,
                                !.win[c].d2dContext = d2dContext])

\* The end of EnsureInitialized: the swap chain and the context made by the
\* calls so far are locals, named id; the resources are initialized against
\* the local context, and only then are the two members assigned.
InitializeAndAssign(m, c, s, id) ==
    LET w == m.win[c]
        dxgiSwapChain == [id |-> id, inst |-> m.device.dxgiDevice,
                          width |-> w.pixelSize.width,
                          height |-> w.pixelSize.height]
        d2dContext == [id |-> id, inst |-> m.device.d2dDevice, dpi |-> w.dpi]
    IN
    Then(ResourceList2D_EnsureInitialized(
            [m EXCEPT !.ids = @ \cup {id}], c, d2dContext, s),
         LAMBDA m5 : [m5 EXCEPT !.win[c].swapChain = dxgiSwapChain,
                                !.win[c].d2dContext = d2dContext])

\* m_device->GetD2DDevice()->CreateDeviceContext(...) and what follows it.
CreateContext(m, c, s) ==
    IF m.device.d2dDevice = 0
    THEN NullCall(m, "CreateDeviceContext", s)
    ELSE \* CreateDeviceContext, SetDpi, CreateBitmapFromDxgiSurface, SetTarget
         Then(SurfaceCalls(m, 5, 6, s),
              LAMBDA m4 : InitializeAndAssign(m4, c, s, Fresh(m4.ids)))

\* The device is there: its generation is captured, then the swap chain is
\* made by GetAdapter, GetParent, CreateSwapChain, GetBuffer.
CreateSwapChain(m, c, s) ==
    Then(SurfaceCalls([m EXCEPT !.win[c].deviceGeneration = m.device.generation],
                      1, 4, s),
         LAMBDA m3 : CreateContext(m3, c, s))

\* Mutant of EnsureInitialized: nothing is done when the context is there.
EnsureInitialized_NoSweep(m, c, s) ==
    IF m.win[c].d2dContext # NullContext
    THEN Emit(m, Ev("EnsureInitialized"))
    ELSE Then(DXDevice_EnsureInitialized(Emit(m, Ev("EnsureInitialized")), s),
              LAMBDA m1 : CreateSwapChain(m1, c, s))

DXWindowContext_EnsureInitialized(m, c, s) ==
    IF m.win[c].d2dContext # NullContext
    THEN ResourceList2D_EnsureInitialized(
            Emit(m, Ev("EnsureInitialized")), c, m.win[c].d2dContext, s)
    ELSE Then(DXDevice_EnsureInitialized(Emit(m, Ev("EnsureInitialized")), s),
              LAMBDA m1 : CreateSwapChain(m1, c, s))

\* Mutant of the drawing: RenderContent is called before BeginDraw.
Draw_RendersBeforeBegin(m, c, s) ==
    LET w == m.win[c] IN
    Then(HR(Emit(Emit(m, [ev |-> "RenderContent",
                          ready |-> (w.d2dContext # NullContext
                                       /\ w.swapChain # NullSwapChain),
                          initialized |-> \A i \in DOMAIN w.resources :
                              Resource2DBase_IsInitialized(w.resources[i])]),
                 Ev("BeginDraw")),
            "EndDraw", StatusAt(s, "EndDraw")),
         LAMBDA m3 : HR(m3, "Present", StatusAt(s, "Present")))

\* Mutant of the drawing: both HRESULTs are kept and examined after Present.
Draw_ChecksAfterPresent(m, c, s) ==
    LET w == m.win[c]
        m2 == Emit(Emit(Emit(Emit(m, Ev("BeginDraw")),
                 [ev |-> "RenderContent",
                  ready |-> (w.d2dContext # NullContext
                               /\ w.swapChain # NullSwapChain),
                  initialized |-> \A i \in DOMAIN w.resources :
                      Resource2DBase_IsInitialized(w.resources[i])]),
                 [ev |-> "EndDraw", hr |-> StatusAt(s, "EndDraw")]),
                 [ev |-> "Present", hr |-> StatusAt(s, "Present")])
    IN IF FAILED(StatusAt(s, "EndDraw")) THEN Raise(m2, StatusAt(s, "EndDraw"))
       ELSE IF FAILED(StatusAt(s, "Present")) THEN Raise(m2, StatusAt(s, "Present"))
       ELSE m2

\* BeginDraw, RenderContent, HR(EndDraw), HR(Present)
Draw(m, c, s) ==
    LET w == m.win[c] IN
    Then(HR(Emit(Emit(m, Ev("BeginDraw")),
                 [ev |-> "RenderContent",
                  ready |-> (w.d2dContext # NullContext
                               /\ w.swapChain # NullSwapChain),
                  initialized |-> \A i \in DOMAIN w.resources :
                      Resource2DBase_IsInitialized(w.resources[i])]),
            "EndDraw", StatusAt(s, "EndDraw")),
         LAMBDA m3 : HR(m3, "Present", StatusAt(s, "Present")))

DXWindowContext_PaintInternal(m, c, s) ==
    Then(DXWindowContext_EnsureInitialized(Emit(m, Ev("PaintInternal")), c, s),
         LAMBDA m1 : Draw(m1, c, s))

\* catch (DeviceLostException const&) { ResetDevice(); PaintInternal(); }
CatchDeviceLost(m, c, s2) ==
    IF m.exc.kind = "DeviceLostException" /\ ~m.crashed
    THEN DXWindowContext_PaintInternal(
            DXWindowContext_ResetDevice([m EXCEPT !.exc = NoException], c), c, s2)
    ELSE m

\* Mutant of Paint: a lost device is not recovered from.
Paint_NoRetry(m, c, s1, s2) == DXWindowContext_PaintInternal(m, c, s1)

\* Paint: s1 scripts the first PaintInternal, s2 the one after ResetDevice.
DXWindowContext_Paint(m, c, s1, s2) ==
    CatchDeviceLost(DXWindowContext_PaintInternal(m, c, s1), c, s2)

Max(a, b) == IF a >= b THEN a ELSE b

\* GetWindowSize: the client rectangle's extent, at least 1 x 1.
GetWindowSize(client) ==
    [width |-> Max(1, client.width), height |-> Max(1, client.height)]

\* OnSizeChanged(): the hook of the derived class.
OnSizeChanged(m, c) ==
    Emit(m, [ev |-> "OnSizeChanged",
             size |-> m.win[c].pixelSize,
             ready |-> (m.win[c].d2dContext # NullContext
                          /\ m.win[c].swapChain # NullSwapChain)])

\* The body of the if of OnResizeInternal.
Resize(m, c, newSize, s) ==
    Then(DXWindowContext_EnsureInitialized(
            DXWindowContext_ResetWindow(
                [Emit(m, [ev |-> "StoreSize", size |-> newSize])
                    EXCEPT !.win[c].pixelSize = newSize], c), c, s),
         LAMBDA m2 : OnSizeChanged(m2, c))

\* Mutant of OnResizeInternal: the new size is not compared with the old.
OnResizeInternal_NoCompare(m, c, client, s) ==
    Resize(m, c, GetWindowSize(client), s)

\* Mutant of OnResizeInternal: the hook is called before the surface is rebuilt.
OnResizeInternal_HookFirst(m, c, client, s) ==
    LET newSize == GetWindowSize(client)
        old == m.win[c].pixelSize
    IN
    IF newSize.width # old.width \/ newSize.height # old.height
    THEN DXWindowContext_EnsureInitialized(
            OnSizeChanged(
                DXWindowContext_ResetWindow(
                    [Emit(m, [ev |-> "StoreSize", size |-> newSize])
                        EXCEPT !.win[c].pixelSize = newSize], c), c), c, s)
    ELSE m

\* Mutant of OnResizeInternal: the size is stored once the surface is rebuilt.
OnResizeInternal_StoresLast(m, c, client, s) ==
    LET newSize == GetWindowSize(client)
        old == m.win[c].pixelSize
    IN
    IF newSize.width # old.width \/ newSize.height # old.height
    THEN Then(DXWindowContext_EnsureInitialized(
                 DXWindowContext_ResetWindow(m, c), c, s),
              LAMBDA m2 :
                 OnSizeChanged([Emit(m2, [ev |-> "StoreSize", size |-> newSize])
                                  EXCEPT !.win[c].pixelSize = newSize], c))
    ELSE m

DXWindowContext_OnResizeInternal(m, c, client, s) ==
    LET newSize == GetWindowSize(client)
        old == m.win[c].pixelSize
    IN
    IF newSize.width # old.width \/ newSize.height # old.height
    THEN Resize(m, c, newSize, s)
    ELSE m

\* Mutant of OnDpiChangedInternal: the hook runs before the context is told.
OnDpiChangedInternal_HookFirst(m, c, newDpi, newRect) ==
    LET m3 ==
        IF newDpi # m.win[c].dpi
        THEN
        LET m1 == [Emit(m, [ev |-> "StoreDpi", dpi |-> newDpi])
                    EXCEPT !.win[c].dpi = newDpi]
            m2 == Emit(m1, [ev |-> "OnDpiChanged", dpi |-> m1.win[c].dpi,
                            contextDpi |-> m1.win[c].d2dContext.dpi])
        IN IF m2.win[c].d2dContext # NullContext
           THEN [Emit(m2, [ev |-> "SetDpi", dpi |-> newDpi])
                   EXCEPT !.win[c].d2dContext.dpi = newDpi]
           ELSE m2
        ELSE m
    IN
    Emit(m3, [ev |-> "SetWindowPos", x |-> newRect.left, y |-> newRect.top,
              cx |-> newRect.right - newRect.left,
              cy |-> newRect.bottom - newRect.top])

\* Mutant of OnDpiChangedInternal: a new DPI drops the surface.
OnDpiChangedInternal_DropsSurface(m, c, newDpi, newRect) ==
    LET m3 ==
        IF newDpi # m.win[c].dpi
        THEN
        LET m1 == DXWindowContext_ResetWindow(
                     [Emit(m, [ev |-> "StoreDpi", dpi |-> newDpi])
                        EXCEPT !.win[c].dpi = newDpi], c)
        IN Emit(m1, [ev |-> "OnDpiChanged", dpi |-> m1.win[c].dpi,
                     contextDpi |-> m1.win[c].d2dContext.dpi])
        ELSE m
    IN
    Emit(m3, [ev |-> "SetWindowPos", x |-> newRect.left, y |-> newRect.top,
              cx |-> newRect.right - newRect.left,
              cy |-> newRect.bottom - newRect.top])

DXWindowContext_OnDpiChangedInternal(m, c, newDpi, newRect) ==
    LET m3 ==
        IF newDpi # m.win[c].dpi
        THEN
        LET m1 == [Emit(m, [ev |-> "StoreDpi", dpi |-> newDpi])
                    EXCEPT !.win[c].dpi = newDpi]
            m2 == IF m1.win[c].d2dContext # NullContext
                  THEN [Emit(m1, [ev |-> "SetDpi", dpi |-> newDpi])
                          EXCEPT !.win[c].d2dContext.dpi = newDpi]
                  ELSE m1
        IN Emit(m2, [ev |-> "OnDpiChanged", dpi |-> m2.win[c].dpi,
                     contextDpi |-> m2.win[c].d2dContext.dpi])
        ELSE m
    IN
    Emit(m3, [ev |-> "SetWindowPos", x |-> newRect.left, y |-> newRect.top,
              cx |-> newRect.right - newRect.left,
              cy |-> newRect.bottom - newRect.top])

----------------------------------------------------------------------------
(* Inputs                                                                  *)

ThrowingSites == DeviceSites \cup Range(SurfaceSites) \cup DrawSites

FailAt(sites) ==
    UNION {{[OkScript EXCEPT !.site = x, !.hr = h] : h \in FailCodes(x)}
              : x \in sites}

BrushScripts(n) ==
    {[OkScript EXCEPT !.site = "CreateSolidColorBrush", !.hr = h, !.at = i]
        : h \in FailCodes("CreateSolidColorBrush"), i \in 1..n}

\* CreateDevice fails: the calls made before the null d2dDevice is used may
\* fail too, or the null pointer is used.
NoD2dScripts ==
    {[OkScript EXCEPT !.d2d = E_NOINTERFACE, !.ub = u] : u \in {"crash", "fault"}}
    \cup {[s EXCEPT !.d2d = E_NOINTERFACE]
            : s \in FailAt({SurfaceSites[k] : k \in 1..4})}

Scripts(n) == {OkScript} \cup FailAt(ThrowingSites) \cup BrushScripts(n) \cup NoD2dScripts

DeviceScripts ==
    {OkScript, [OkScript EXCEPT !.d2d = E_NOINTERFACE]} \cup FailAt(DeviceSites)

Colors == {"black", "red"}
Dpis == {96, 192}
ForcedDpis == {0, 96}
ClientSizes ==
    {cl \in [width : 0..MaxDim, height : 0..MaxDim] : cl.width + cl.height <= MaxDim + 1}
Rects == {[left |-> 0, top |-> 0, right |-> 1, bottom |-> 1],
          [left |-> 1, top |-> 0, right |-> 3, bottom |-> 1]}

---------------------------------------------------------------------------------------------------------------------------------------------------
(* Initial state: wWinMain made the DXDevice, each window context was      *)
(* constructed for its window (shown with a client area of 1 x 1), and the *)
(* derived class added its text brush.  The message loop is about to run.  *)

NewWindow(client, dpi) ==
    [deviceGeneration |-> 0,
     pixelSize |-> GetWindowSize(client),
     dpi |-> dpi,
     swapChain |-> NullSwapChain,
     d2dContext |-> NullContext,
     resources |-> ResourceList2D_Add(<<>>, SolidColorBrush_New)]

Idle == [name |-> "GetMessage", ctx |-> "none", arg |-> "none",
         exc |-> NoException, log |-> <<>>]

Init ==
    /\ device = [d3dContext |-> 0, dxgiDevice |-> 0, d2dDevice |-> 0,
                 generation |-> 0]
    /\ forceDpi \in ForcedDpis
    /\ win = [c \in Contexts |->
                NewWindow([width |-> 1, height |-> 1],
                          IF forceDpi # 0 THEN forceDpi ELSE 96)]
    /\ proc = "running"
    /\ op = Idle

----------------------------------------------------------------------------
(* Actions.  The message loop of wWinMain dispatches one message at a time *)
(* to a static handler of DXWindowContext; op holds what the handler did   *)
(* until DispatchMessage returns.                                          *)

\* The state after a handler ran to m.  catch (...) { std::terminate(); }
Finish(m, name, c, arg) ==
    /\ m.device.generation <= MaxGen
    /\ device' = m.device
    /\ win' = m.win
    /\ proc' = IF m.crashed THEN "crashed"
               ELSE IF m.exc.kind # "none" THEN "terminated"
               ELSE "running"
    /\ op' = [name |-> name, ctx |-> c, arg |-> arg, exc |-> m.exc, log |-> m.log]
    /\ UNCHANGED forceDpi

Dispatching == proc = "running" /\ op = Idle

\* The scripts of the PaintInternal after ResetDevice, if s1 leads there.
RetryScripts(c, s1) ==
    IF DXWindowContext_PaintInternal(Machine(c), c, s1).exc.kind
          = "DeviceLostException"
    THEN Scripts(Len(win[c].resources))
    ELSE {OkScript}

\* WM_PAINT
OnPaint(c) ==
    /\ Dispatching
    /\ \E s1 \in Scripts(Len(win[c].resources)) : \E s2 \in RetryScripts(c, s1) :
         Finish(DXWindowContext_Paint(Machine(c), c, s1, s2), "OnPaint", c, "none")

\* The scripts of a resize to client: no call is made when the size is kept.
ResizeScripts(c, client) ==
    IF GetWindowSize(client) = win[c].pixelSize
    THEN {OkScript}
    ELSE Scripts(Len(win[c].resources))

\* WM_SIZE, the client area being client
OnResize(c) ==
    /\ Dispatching
    /\ \E client \in ClientSizes : \E s \in ResizeScripts(c, client) :
         Finish(DXWindowContext_OnResizeInternal(Machine(c), c, client, s),
                "OnResize", c, GetWindowSize(client))

\* WM_DPICHANGED, LOWORD(wParam) being dpi and *lParam being rect
OnDpiChanged(c) ==
    /\ Dispatching
    /\ \E dpi \in Dpis : \E rect \in Rects :
         LET newDpi == IF forceDpi # 0 THEN forceDpi ELSE dpi IN
         Finish(DXWindowContext_OnDpiChangedInternal(Machine(c), c, newDpi, rect),
                "OnDpiChanged", c, [dpi |-> newDpi, rect |-> rect])

\* Handles are opaque: when DispatchMessage returns to the loop, the objects
\* still alive are renumbered in the order of their identities, so that two
\* states that differ only in the names of their objects are one state.
Rank(held, x) == Cardinality({y \in held : y <= x})

Renumbered(h, ids, insts) ==
    [h EXCEPT !.id = Rank(ids, @), !.inst = Rank(insts, @)]

RenumberedWindow(wc, insts) ==
    LET ids == HeldIds(wc) IN
    [wc EXCEPT
        !.swapChain = Renumbered(@, ids, insts),
        !.d2dContext = Renumbered(@, ids, insts),
        !.resources = [i \in DOMAIN @ |->
                          [@[i] EXCEPT !.ptr = Renumbered(@, ids, insts)]]]

\* DispatchMessage returns to the loop.
ReturnToLoop ==
    /\ proc = "running"
    /\ op # Idle
    /\ op' = Idle
    /\ LET insts == HeldInsts(device, win) IN
       /\ device' = [device EXCEPT !.d3dContext = Rank(insts, @),
                                   !.dxgiDevice = Rank(insts, @),
                                   !.d2dDevice = Rank(insts, @)]
       /\ win' = [c \in Contexts |-> RenumberedWindow(win[c], insts)]
    /\ UNCHANGED <<forceDpi, proc>>

Next ==
    \/ \E c \in Contexts : OnPaint(c) \/ OnResize(c) \/ OnDpiChanged(c)
    \/ ReturnToLoop

Spec == Init /\ [][Next]_vars

----------------------------------------------------------------------------
(* The DXDevice on its own: an application that calls the public methods   *)
(* of a DXDevice no window context uses, and catches what they throw.      *)

DeviceFinish(m, name, arg) ==
    /\ m.device.generation <= MaxDevGen
    /\ device' = m.device
    /\ proc' = "running"
    /\ op' = [name |-> name, ctx |-> "none", arg |-> arg,
              exc |-> m.exc, log |-> m.log]
    /\ UNCHANGED <<win, forceDpi>>

\* device->Reset()
DeviceReset ==
    /\ proc = "running"
    /\ LET m0 == Machine("A") IN
       DeviceFinish([Emit(m0, [ev |-> "DXDevice::Reset",
                               inst |-> m0.device.dxgiDevice])
                        EXCEPT !.device = DXDevice_Reset(@)],
                    "Reset", "none")

\* device->EnsureInitialized(), the creation calls returning as s says
DeviceEnsureInitialized ==
    /\ proc = "running"
    /\ \E s \in DeviceScripts :
         DeviceFinish(DXDevice_EnsureInitialized(Machine("A"), s),
                      "EnsureInitialized", s)

NextDevice == DeviceReset \/ DeviceEnsureInitialized

SpecDevice == Init /\ [][NextDevice]_vars

----------------------------------------------------------------------------
(* The window contexts used by a derived class that registers brushes      *)
(* after construction, changes their colours, and calls the public Paint() *)
(* itself, catching what it throws.                                        *)

\* The state after a call returned or threw to a caller that catches.
Return(m, name, c, arg) ==
    /\ m.device.generation <= MaxGen
    /\ device' = m.device
    /\ win' = m.win
    /\ proc' = IF m.crashed THEN "crashed" ELSE "running"
    /\ op' = [name |-> name, ctx |-> c, arg |-> arg, exc |-> m.exc, log |-> m.log]
    /\ UNCHANGED forceDpi

\* The calls that fail in this application: the drawing, which loses the
\* device, and the creation of a brush.
ResourceScripts(n) == {OkScript} \cup FailAt({"EndDraw"}) \cup BrushScripts(n)

\* context->Paint()
Paint(c) ==
    /\ Dispatching
    /\ \E s1 \in ResourceScripts(Len(win[c].resources)) :
       \E s2 \in RetryScripts(c, s1) \cap ResourceScripts(Len(win[c].resources)) :
         Return(DXWindowContext_Paint(Machine(c), c, s1, s2), "Paint", c, "none")

\* AddResource(&brush), brush being a new SolidColorBrush
AddResource(c) ==
    /\ Dispatching
    /\ Len(win[c].resources) < MaxRes
    /\ Return([Emit(Machine(c), Ev("Add")) EXCEPT
                  !.win[c].resources = ResourceList2D_Add(@, SolidColorBrush_New)],
              "AddResource", c, "none")

\* brush.SetColor(newColor), brush being the i-th registered with c
SetColor(c) ==
    /\ Dispatching
    /\ \E i \in DOMAIN win[c].resources : \E newColor \in Colors :
         Return([Emit(Machine(c), [ev |-> "SetColor", res |-> i, color |-> newColor])
                    EXCEPT !.win[c].resources[i] =
                              SolidColorBrush_SetColor(@, newColor)],
                "SetColor", c, [res |-> i, color |-> newColor])

NextResources ==
    \/ \E c \in Contexts : Paint(c) \/ AddResource(c) \/ SetColor(c)
    \/ ReturnToLoop

SpecResources == Init /\ [][NextResources]_vars

----------------------------------------------------------------------------
(* Reading the event log of an operation.                                  *)

Places(log, name) == {i \in DOMAIN log : log[i].ev = name}
Count(log, name) == Cardinality(Places(log, name))
Has(log, name) == Places(log, name) # {}

\* The hardware devices an operation created.
Creations(log) ==
    Cardinality({i \in Places(log, "D3D11CreateDevice") : ~FAILED(log[i].hr)})

AllAbsent(d) == d.d3dContext = 0 /\ d.dxgiDevice = 0 /\ d.d2dDevice = 0
AllPresent(d) == d.d3dContext # 0 /\ d.dxgiDevice # 0 /\ d.d2dDevice # 0

\* The HRESULT of the first failing creation step of a script, S_OK if none.
FailedStep(s) ==
    IF FAILED(StatusAt(s, "D3D11CreateDevice")) THEN StatusAt(s, "D3D11CreateDevice")
    ELSE IF FAILED(StatusAt(s, "QueryInterface")) THEN StatusAt(s, "QueryInterface")
    ELSE s.d2d

----------------------------------------------------------------------------
(* C4.  Over any sequence of DXDevice Reset() and EnsureInitialized()      *)
(* calls, generation never decreases, Reset() leaves it unchanged, it      *)
(* grows by exactly one on an EnsureInitialized() that created the device  *)
(* (the device was not initialized before and is after), and it is         *)
(* unchanged by an EnsureInitialized() that found the device initialized   *)
(* or did not succeed in creating it.                                      *)
C4_GenerationMonotone ==
    [][/\ device'.generation >= device.generation
       /\ op'.name = "Reset" => device'.generation = device.generation
       /\ op'.name = "EnsureInitialized" =>
            device'.generation =
                IF ~DXDevice_IsInitialized(device) /\ DXDevice_IsInitialized(device')
                THEN device.generation + 1
                ELSE device.generation]_vars

(* C5.  EnsureInitialized() is idempotent: when a call that found the      *)
(* device uninitialized returned normally and is followed by another call  *)
(* (no Reset() between), the two calls together made exactly one           *)
(* D3D11CreateDevice, and the second changed neither handles nor           *)
(* generation.                                                             *)
C5_Idempotent ==
    [][(/\ op.name = "EnsureInitialized"
        /\ op.exc = NoException
        /\ op'.name = "EnsureInitialized")
       => /\ device' = device
          /\ Creations(op.log) + Creations(op'.log)
                = IF op.log[1].initialized THEN 0 ELSE 1]_vars

(* C6.  After any sequence of DXDevice operations the three device handles *)
(* are all present or all absent, and IsInitialized() is true exactly when *)
(* all are present.                                                        *)
C6_AllOrNothing ==
    /\ AllPresent(device) \/ AllAbsent(device)
    /\ DXDevice_IsInitialized(device) <=> AllPresent(device)

(* C7.  If a step of device creation fails inside EnsureInitialized()      *)
(* (D3D11CreateDevice, QueryInterface or CreateDevice), the call throws an *)
(* exception carrying that HRESULT and leaves handles and generation       *)
(* unchanged.                                                              *)
C7_FailedCreationThrows ==
    [][(/\ op'.name = "EnsureInitialized"
        /\ ~DXDevice_IsInitialized(device)
        /\ FAILED(FailedStep(op'.arg)))
       => /\ op'.exc.kind # "none"
          /\ op'.exc.hr = FailedStep(op'.arg)
          /\ device' = device]_vars

----------------------------------------------------------------------------
(* Claims about the window contexts, under Spec.                           *)

Ready(wc) == wc.d2dContext # NullContext /\ wc.swapChain # NullSwapChain

\* The places of the log where a call under HR() returned a failing HRESULT.
Failures(log) ==
    {i \in DOMAIN log :
        /\ "hr" \in DOMAIN log[i]
        /\ log[i].ev # "CreateDevice"
        /\ FAILED(log[i].hr)}

Least(S) == CHOOSE i \in S : \A j \in S : i <= j

LostCodes == {D2DERR_RECREATE_TARGET, DXGI_ERROR_DEVICE_REMOVED}

\* ResetDevice ran in the log while the window's captured generation was
\* not the device's.
StaleReset(log) ==
    \E i \in Places(log, "ResetDevice") : log[i].captured # log[i].generation

(* C1.  When a window context's ResetDevice() runs while its captured      *)
(* generation is not the device's (a sibling recovered the shared device   *)
(* first), it does not call DXDevice::Reset() and the device handles and   *)
(* generation stay as they were; the EnsureInitialized() that follows      *)
(* still rebuilds the window's own swap chain and device context, on the   *)
(* sibling's device, and captures the device's generation.                 *)
C1_StaleResetKeepsDevice ==
    [][\A c \in Contexts :
        (op'.name = "OnPaint" /\ op'.ctx = c /\ StaleReset(op'.log))
        => /\ ~Has(op'.log, "DXDevice::Reset")
           /\ device' = device
           /\ Creations(op'.log) = 0
           /\ (op'.exc = NoException /\ proc' = "running")
                => /\ Ready(win'[c])
                   /\ win'[c].d2dContext.id # win[c].d2dContext.id
                   /\ win'[c].swapChain.id # win[c].swapChain.id
                   /\ win'[c].d2dContext.inst = device.d2dDevice
                   /\ win'[c].deviceGeneration = device.generation
                   /\ \A i \in DOMAIN win'[c].resources :
                        win'[c].resources[i].ptr.id = win'[c].d2dContext.id]_vars

\* B, captured at generation g, painted after A had recovered the device to
\* generation g + 1, and rebuilt its surface on A's device.
C1_Witness ==
    /\ op.name = "OnPaint" /\ op.ctx = "B"
    /\ op.exc = NoException /\ proc = "running"
    /\ \E i \in Places(op.log, "ResetDevice") :
         op.log[i].generation = op.log[i].captured + 1
    /\ win["A"].deviceGeneration = device.generation
    /\ win["B"].deviceGeneration = device.generation
    /\ Ready(win["A"]) /\ Ready(win["B"])
    /\ win["B"].d2dContext.inst = win["A"].d2dContext.inst

(* C2.  A Paint() makes at most two PaintInternal calls and at most one    *)
(* ResetDevice(); when a DeviceLostException comes out of it, every        *)
(* attempt raised one: there were exactly two PaintInternal calls with     *)
(* exactly one ResetDevice() between them, each ended in a call returning  *)
(* a device-lost HRESULT, and the exception that propagates is the second  *)
(* one.                                                                    *)
C2_RetryOnceThenPropagate ==
    op.name = "OnPaint" =>
        /\ Count(op.log, "PaintInternal") <= 2
        /\ Count(op.log, "ResetDevice") <= 1
        /\ op.exc.kind = "DeviceLostException" =>
            /\ Count(op.log, "PaintInternal") = 2
            /\ Count(op.log, "ResetDevice") = 1
            /\ \E i, j, k \in DOMAIN op.log :
                /\ i = 1 /\ i < j /\ j < k
                /\ op.log[i].ev = "PaintInternal"
                /\ op.log[j].ev = "ResetDevice"
                /\ op.log[k].ev = "PaintInternal"
                /\ Failures(op.log) = {j - 1, Len(op.log)}
                /\ op.log[j - 1].hr \in LostCodes
            /\ op.exc = [kind |-> "DeviceLostException",
                         hr |-> op.log[Len(op.log)].hr]
            /\ proc = "terminated"

C2_Witness ==
    /\ op.name = "OnPaint"
    /\ op.exc.kind = "DeviceLostException"
    /\ Count(op.log, "RenderContent") = 2
    /\ op.log[Len(op.log)].ev = "Present"

(* C3.  Only a DeviceLostException is recovered from: when the first       *)
(* failing call of a Paint() returns an HRESULT that is not a device-lost  *)
(* code, Paint() throws a WinException carrying it after exactly one       *)
(* PaintInternal, with no ResetDevice() and no DXDevice::Reset(), and the  *)
(* device and the window contexts are as that one PaintInternal left them. *)
C3_OnlyDeviceLostRecovers ==
    [][\A c \in Contexts :
        (/\ op'.name = "OnPaint" /\ op'.ctx = c
         /\ Failures(op'.log) # {}
         /\ op'.log[Least(Failures(op'.log))].hr \notin LostCodes)
        => /\ Count(op'.log, "PaintInternal") = 1
           /\ ~Has(op'.log, "ResetDevice")
           /\ ~Has(op'.log, "DXDevice::Reset")
           /\ op'.exc = [kind |-> "WinException",
                         hr |-> op'.log[Least(Failures(op'.log))].hr]
           /\ \E s \in Scripts(Len(win[c].resources)) :
                LET m == DXWindowContext_PaintInternal(Machine(c), c, s) IN
                /\ m.log = op'.log
                /\ m.device = device'
                /\ m.win = win']_vars

\* A paint on a ready surface whose EndDraw failed with a platform error.
C3_Witness ==
    /\ op.name = "OnPaint"
    /\ op.exc.kind = "WinException"
    /\ op.log[Len(op.log)].ev = "EndDraw"
    /\ Ready(win[op.ctx])
    /\ DXDevice_IsInitialized(device)

(* C8.  In every state between operations, also after an operation that   *)
(* failed part-way, the swap chain and the device context of a window      *)
(* context are both present or both absent.                                *)
C8_SurfaceAndContextTogether ==
    \A c \in Contexts :
        (win[c].swapChain = NullSwapChain) <=> (win[c].d2dContext = NullContext)

\* A resize tore the surface down and failed after creating the swap chain.
C8_Witness ==
    /\ op.name = "OnResize"
    /\ op.exc.kind # "none"
    /\ Has(op.log, "ResetWindow")
    /\ \E i \in Places(op.log, "CreateSwapChain") : ~FAILED(op.log[i].hr)
    /\ win[op.ctx].swapChain = NullSwapChain
    /\ win[op.ctx].d2dContext = NullContext

(* C9.  A WM_SIZE whose pixel width and height equal the stored size is a  *)
(* no-op: no call is made and no hook invoked, and the window contexts     *)
(* (handles, size, captured generation, resources) and the device are      *)
(* unchanged.                                                              *)
C9_SameSizeNoOp ==
    [][\A c \in Contexts :
        (op'.name = "OnResize" /\ op'.ctx = c /\ op'.arg = win[c].pixelSize)
        => /\ op'.log = <<>>
           /\ op'.exc = NoException
           /\ win' = win
           /\ device' = device]_vars

\* A same-size notification reached a ready surface.
C9_Witness ==
    /\ op.name = "OnResize"
    /\ op.log = <<>>
    /\ op.arg = win[op.ctx].pixelSize
    /\ Ready(win[op.ctx])

(* C10.  A WM_SIZE whose size differs from the stored size, when the       *)
(* rebuild succeeds, stores the new size, then tears the surface down,     *)
(* then rebuilds it at the new size, then invokes OnSizeChanged exactly    *)
(* once, as the last step; the hook sees the new size and a ready surface. *)
C10_ResizeRebuilds ==
    [][\A c \in Contexts :
        (/\ op'.name = "OnResize" /\ op'.ctx = c
         /\ op'.arg # win[c].pixelSize
         /\ op'.exc = NoException /\ proc' = "running")
        => /\ Len(op'.log) >= 4
           /\ op'.log[1] = [ev |-> "StoreSize", size |-> op'.arg]
           /\ op'.log[2].ev = "ResetWindow"
           /\ op'.log[3].ev = "EnsureInitialized"
           /\ \E i \in Places(op'.log, "CreateSwapChain") : i > 3
           /\ Places(op'.log, "OnSizeChanged") = {Len(op'.log)}
           /\ op'.log[Len(op'.log)].size = op'.arg
           /\ op'.log[Len(op'.log)].ready
           /\ Count(op'.log, "ResetWindow") = 1
           /\ win'[c].pixelSize = op'.arg
           /\ Ready(win'[c])
           /\ win'[c].swapChain.width = op'.arg.width
           /\ win'[c].swapChain.height = op'.arg.height
           /\ win'[c].d2dContext.id # win[c].d2dContext.id]_vars

\* A ready surface was resized to another size.
C10_Witness ==
    /\ op.name = "OnResize"
    /\ op.exc = NoException /\ proc = "running"
    /\ Has(op.log, "OnSizeChanged")
    /\ Has(op.log, "ResetWindow")
    /\ Ready(win[op.ctx])
    /\ win[op.ctx].resources[1].ptr # NullBrush
    /\ win[op.ctx].resources[1].ptr.id # win[op.ctx].d2dContext.id

----------------------------------------------------------------------------
(* Claims about the registered resources, under SpecResources.             *)

Uninitialized(rs) == \A i \in DOMAIN rs : ~Resource2DBase_IsInitialized(rs[i])
Initialized(rs) == \A i \in DOMAIN rs : Resource2DBase_IsInitialized(rs[i])
ColorsOf(rs) == [i \in DOMAIN rs |-> rs[i].color]

\* The machine when the catch block of Paint is entered.
Caught(m) == [m EXCEPT !.exc = NoException]

\* log starts with the events of prefix.
StartsWith(log, prefix) ==
    Len(prefix) <= Len(log) /\ SubSeq(log, 1, Len(prefix)) = prefix

(* C11.  When ResetDevice() has run in a Paint(), every registered         *)
(* resource was uninitialized at its end with its colour kept; when the    *)
(* Paint() then succeeds every resource is initialized again, by a brush   *)
(* of the rebuilt device context.  A brush always has the colour last set  *)
(* by SetColor, whether it was set while the brush existed (it is pushed   *)
(* to the brush) or while the resource was reset (the next Initialize      *)
(* takes it).                                                              *)
C11_ResourcesRecreated ==
    [][/\ \A c \in Contexts :
            (op'.name = "Paint" /\ op'.ctx = c /\ Has(op'.log, "ResetAll"))
            => /\ ColorsOf(win'[c].resources) = ColorsOf(win[c].resources)
               /\ \E s1 \in ResourceScripts(Len(win[c].resources)) :
                    LET m == DXWindowContext_ResetDevice(
                                Caught(DXWindowContext_PaintInternal(Machine(c), c, s1)), c)
                    IN /\ StartsWith(op'.log, m.log)
                       /\ Uninitialized(m.win[c].resources)
                       /\ ColorsOf(m.win[c].resources) = ColorsOf(win[c].resources)
               /\ op'.exc = NoException
                    => /\ Initialized(win'[c].resources)
                       /\ \A i \in DOMAIN win'[c].resources :
                            win'[c].resources[i].ptr.id = win'[c].d2dContext.id
       /\ \A c \in Contexts :
            (op'.name = "SetColor" /\ op'.ctx = c)
            => /\ win'[c].resources[op'.arg.res].color = op'.arg.color
               /\ Resource2DBase_IsInitialized(win'[c].resources[op'.arg.res])
                    <=> Resource2DBase_IsInitialized(win[c].resources[op'.arg.res])
       /\ \A c \in Contexts : \A i \in DOMAIN win'[c].resources :
            Resource2DBase_IsInitialized(win'[c].resources[i])
            => win'[c].resources[i].ptr.color = win'[c].resources[i].color]_vars

\* A Paint() recovered from a lost device and recreated a brush whose
\* colour had been changed.
C11_Witness ==
    /\ op.name = "Paint"
    /\ op.exc = NoException /\ proc = "running"
    /\ Has(op.log, "ResetAll")
    /\ \E i \in DOMAIN win[op.ctx].resources :
         /\ win[op.ctx].resources[i].color = "red"
         /\ win[op.ctx].resources[i].ptr.color = "red"
         /\ win[op.ctx].resources[i].ptr.id = win[op.ctx].d2dContext.id

----------------------------------------------------------------------------
(* Claims about WM_DPICHANGED, under Spec.                                 *)

\* The SetWindowPos call that moves the window to rect.
Reposition(rect) ==
    [ev |-> "SetWindowPos", x |-> rect.left, y |-> rect.top,
     cx |-> rect.right - rect.left, cy |-> rect.bottom - rect.top]

(* C12.  On a WM_DPICHANGED whose DPI equals the stored DPI, the stored    *)
(* DPI and the context's DPI are untouched, OnDpiChanged is not invoked,   *)
(* and the only call is the SetWindowPos to the new bounds.  When the DPI  *)
(* differs the steps are, in this order: store the DPI, SetDpi on the      *)
(* device context if there is one, the OnDpiChanged hook exactly once,     *)
(* SetWindowPos to the new bounds; the hook sees the new DPI stored and    *)
(* set on the context.                                                     *)
C12_DpiChangeOrder ==
    [][\A c \in Contexts :
        (op'.name = "OnDpiChanged" /\ op'.ctx = c)
        => IF op'.arg.dpi = win[c].dpi
           THEN /\ win' = win
                /\ op'.log = <<Reposition(op'.arg.rect)>>
           ELSE /\ win'[c].dpi = op'.arg.dpi
                /\ op'.log =
                     <<[ev |-> "StoreDpi", dpi |-> op'.arg.dpi]>>
                     \o (IF win[c].d2dContext # NullContext
                         THEN <<[ev |-> "SetDpi", dpi |-> op'.arg.dpi]>>
                         ELSE <<>>)
                     \o <<[ev |-> "OnDpiChanged", dpi |-> op'.arg.dpi,
                           contextDpi |-> IF win[c].d2dContext # NullContext
                                          THEN op'.arg.dpi ELSE 0],
                          Reposition(op'.arg.rect)>>
                /\ win[c].d2dContext # NullContext
                     => win'[c].d2dContext.dpi = op'.arg.dpi]_vars

\* The DPI of a window with a live device context changed.
C12_Witness ==
    /\ op.name = "OnDpiChanged"
    /\ Len(op.log) = 4
    /\ op.log[2].ev = "SetDpi"
    /\ op.log[3].ev = "OnDpiChanged"
    /\ win[op.ctx].dpi = 192
    /\ win[op.ctx].d2dContext.dpi = 192

\* A window context but for its DPI and the DPI of its device context.
DpiErased(wc) ==
    [wc EXCEPT !.dpi = 0, !.d2dContext = IF @ = NullContext THEN @
                                        ELSE [@ EXCEPT !.dpi = 0]]

----------------------------------------------------------------------------
\* The places of the log where Initialize was invoked on resource r while
\* the device had generation g.
Initializations(log, r, g) ==
    {i \in Places(log, "Initialize") : log[i].res = r /\ log[i].generation = g}

(* C14.  Each registered resource is initialized at most once per device   *)
(* generation; in particular no operation invokes Initialize twice on the  *)
(* same resource while the device has the same generation.                 *)
C14_OncePerGeneration ==
    \A r \in 1..MaxRes : \A g \in 0..MaxGen :
        Cardinality(Initializations(op.log, r, g)) <= 1

----------------------------------------------------------------------------
(* C15.  In a PaintInternal, once EnsureInitialized() succeeded, the steps *)
(* are BeginDraw, RenderContent, EndDraw, Present, in this order and next  *)
(* to each other: Present is issued after EndDraw whatever HRESULT EndDraw *)
(* returned, and no exception is thrown before both were called.           *)
C15_DrawThenPresent ==
    op.name = "OnPaint" =>
        \A i \in Places(op.log, "BeginDraw") :
            /\ i + 3 <= Len(op.log)
            /\ op.log[i + 1].ev = "RenderContent"
            /\ op.log[i + 2].ev = "EndDraw"
            /\ op.log[i + 3].ev = "Present"

(* C15, amended.  In a PaintInternal, once EnsureInitialized() succeeded,  *)
(* BeginDraw, RenderContent and EndDraw are called in this order and next  *)
(* to each other, so RenderContent has returned before any HRESULT is      *)
(* examined.  The HRESULT of EndDraw is examined before Present: Present   *)
(* is called next exactly when EndDraw succeeded, and when EndDraw failed  *)
(* the PaintInternal ends there, throwing that HRESULT.                    *)
C15_DrawOrder ==
    op.name = "OnPaint" =>
        \A i \in Places(op.log, "BeginDraw") :
            /\ i + 2 <= Len(op.log)
            /\ op.log[i + 1].ev = "RenderContent"
            /\ op.log[i + 2].ev = "EndDraw"
            /\ IF FAILED(op.log[i + 2].hr)
               THEN IF i + 2 = Len(op.log)
                    THEN op.exc = WinException_Throw(op.log[i + 2].hr)
                    ELSE /\ op.log[i + 3].ev = "ResetDevice"
                         /\ op.log[i + 2].hr \in LostCodes
               ELSE /\ i + 3 <= Len(op.log)
                    /\ op.log[i + 3].ev = "Present"

\* EndDraw reported the device lost, no Present followed it, and the retry
\* drew and presented.
C15_Witness ==
    /\ op.name = "OnPaint"
    /\ op.exc = NoException
    /\ \E i \in Places(op.log, "EndDraw") :
         FAILED(op.log[i].hr) /\ op.log[i + 1].ev = "ResetDevice"
    /\ Count(op.log, "Present") = 1
    /\ op.log[Len(op.log)] = [ev |-> "Present", hr |-> S_OK]

----------------------------------------------------------------------------
\* The events of ResetDevice() for a window that captured generation
\* captured, on the device d.
ResetDeviceEvents(captured, d) ==
    <<[ev |-> "ResetDevice", captured |-> captured, generation |-> d.generation],
      [ev |-> "ResetWindow"], [ev |-> "ResetAll"]>>
    \o (IF captured = d.generation
        THEN <<[ev |-> "DXDevice::Reset", inst |-> d.dxgiDevice]>>
        ELSE <<>>)

(* C16.  ResetDevice() never throws and does, in this order: drop the swap *)
(* chain and the device context, reset every registered resource (the     *)
(* registrations and the colours are kept), and call DXDevice::Reset() if  *)
(* and only if the captured generation is the device's at that moment.  It *)
(* changes neither the device's generation nor the captured generation,    *)
(* and nothing of the sibling window.                                      *)
C16_ResetDeviceOrder ==
    [][\A c \in Contexts :
        (op'.name = "Paint" /\ op'.ctx = c /\ Has(op'.log, "ResetDevice"))
        => \E s1 \in ResourceScripts(Len(win[c].resources)) :
            LET m0 == Caught(DXWindowContext_PaintInternal(Machine(c), c, s1))
                m == DXWindowContext_ResetDevice(m0, c)
                reset == m0.win[c].deviceGeneration = m0.device.generation
            IN /\ StartsWith(op'.log, m.log)
               /\ ~Threw(m)
               /\ m.log = m0.log \o ResetDeviceEvents(m0.win[c].deviceGeneration,
                                                      m0.device)
               /\ m.win[c].swapChain = NullSwapChain
               /\ m.win[c].d2dContext = NullContext
               /\ Uninitialized(m.win[c].resources)
               /\ ColorsOf(m.win[c].resources) = ColorsOf(m0.win[c].resources)
               /\ m.win[c].deviceGeneration = m0.win[c].deviceGeneration
               /\ m.win[c].pixelSize = m0.win[c].pixelSize
               /\ m.win[c].dpi = m0.win[c].dpi
               /\ \A b \in Contexts \ {c} : m.win[b] = m0.win[b]
               /\ m.device.generation = m0.device.generation
               /\ IF reset THEN AllAbsent(m.device) ELSE m.device = m0.device]_vars

\* A Paint() of a window with two brushes, one recoloured, reset the device
\* it had captured.
C16_Witness ==
    /\ op.name = "Paint"
    /\ \E i \in Places(op.log, "DXDevice::Reset") : op.log[i].inst # 0
    /\ Len(win[op.ctx].resources) = 2
    /\ \E i \in DOMAIN win[op.ctx].resources : win[op.ctx].resources[i].color = "red"

----------------------------------------------------------------------------
\* A WM_SIZE of c with another size than the stored one ran to its end.
Resized(c) ==
    /\ op'.name = "OnResize" /\ op'.ctx = c
    /\ op'.arg # win[c].pixelSize
    /\ op'.exc = NoException /\ proc' = "running"

(* C17.  A WM_SIZE with another size replaces the device context, and the  *)
(* EnsureInitialized() that rebuilds the surface initializes every         *)
(* registered resource against the new context: after it no resource holds *)
(* a brush made from the context that was torn down.                       *)
C17_ResizeReinitializes ==
    [][\A c \in Contexts :
        Resized(c)
        => /\ win'[c].d2dContext.id # win[c].d2dContext.id
           /\ \A i \in DOMAIN win'[c].resources :
                /\ Resource2DBase_IsInitialized(win'[c].resources[i])
                /\ win'[c].resources[i].ptr.id = win'[c].d2dContext.id]_vars

----------------------------------------------------------------------------
\* The events of a sweep of the registry.
SweepEvents ==
    {"EnsureInitialized", "ResourceList2D::EnsureInitialized", "Initialize",
     "CreateSolidColorBrush"}

(* C18.  After every EnsureInitialized() of a window context that returns  *)
(* normally, the swap chain and the device context are present and every   *)
(* registered resource is initialized, also one registered after the       *)
(* surface was built.  When the device context was present at the call,    *)
(* the call only sweeps the registry: DXDevice::EnsureInitialized() is not *)
(* called, and the device, the captured generation, the swap chain, the    *)
(* device context and the resources that were initialized are unchanged.   *)
C18_EnsureInitialized ==
    [][\A c \in Contexts :
        (op'.name = "Paint" /\ op'.ctx = c)
        => /\ (op'.exc = NoException /\ proc' = "running")
                => Ready(win'[c]) /\ Initialized(win'[c].resources)
           /\ \A s \in ResourceScripts(Len(win[c].resources)) :
                LET m == DXWindowContext_EnsureInitialized(
                            Emit(Machine(c), Ev("PaintInternal")), c, s)
                IN (~Threw(m) /\ StartsWith(op'.log, m.log))
                   => /\ Ready(m.win[c])
                      /\ Initialized(m.win[c].resources)
                      /\ win[c].d2dContext # NullContext
                           => /\ \A k \in 2..Len(m.log) : m.log[k].ev \in SweepEvents
                              /\ m.device = device
                              /\ m.win[c].deviceGeneration = win[c].deviceGeneration
                              /\ m.win[c].swapChain = win[c].swapChain
                              /\ m.win[c].d2dContext = win[c].d2dContext
                              /\ \A i \in DOMAIN win[c].resources :
                                   IF Resource2DBase_IsInitialized(win[c].resources[i])
                                   THEN m.win[c].resources[i] = win[c].resources[i]
                                   ELSE m.win[c].resources[i].ptr.id
                                           = win[c].d2dContext.id]_vars

\* A Paint() on a built surface found a brush registered since, and only
\* swept the registry.
C18_Witness ==
    /\ op.name = "Paint"
    /\ op.exc = NoException /\ proc = "running"
    /\ Len(op.log) >= 4
    /\ op.log[3].ev = "ResourceList2D::EnsureInitialized"
    /\ op.log[4] = [ev |-> "Initialize", res |-> 2,
                    ctx |-> win[op.ctx].d2dContext.id,
                    generation |-> device.generation]
    /\ ~Has(op.log, "ResetDevice")
    /\ Ready(win[op.ctx]) /\ Initialized(win[op.ctx].resources)

----------------------------------------------------------------------------
\* A WM_SIZE of c with another size than the stored one threw.
ResizeFailed(c) ==
    /\ op'.name = "OnResize" /\ op'.ctx = c
    /\ op'.arg # win[c].pixelSize
    /\ op'.exc.kind \in {"WinException", "DeviceLostException"}

(* C19.  When the rebuild inside a WM_SIZE with another size fails, also   *)
(* with a device-lost HRESULT, the exception leaves OnResizeInternal: no   *)
(* ResetDevice(), no DXDevice::Reset(), no second EnsureInitialized() and  *)
(* no OnSizeChanged; the swap chain and the device context are both absent *)
(* and the new size is stored, so that OnResizeInternal with that size     *)
(* does nothing and a Paint() rebuilds the surface.  The handler OnResize  *)
(* ends the process with std::terminate().                                 *)
C19_ResizeFailurePropagates ==
    [][\A c \in Contexts :
        ResizeFailed(c)
        => /\ op'.exc = WinException_Throw(op'.log[Len(op'.log)].hr)
           /\ Failures(op'.log) = {Len(op'.log)}
           /\ ~Has(op'.log, "ResetDevice")
           /\ ~Has(op'.log, "ResetAll")
           /\ ~Has(op'.log, "DXDevice::Reset")
           /\ ~Has(op'.log, "OnSizeChanged")
           /\ Count(op'.log, "EnsureInitialized") = 1
           /\ win'[c].swapChain = NullSwapChain
           /\ win'[c].d2dContext = NullContext
           /\ win'[c].pixelSize = op'.arg
           /\ proc' = "terminated"
           /\ LET after == [Machine(c) EXCEPT !.device = device', !.win = win'] IN
              /\ DXWindowContext_OnResizeInternal(after, c, op'.arg, OkScript) = after
              /\ Ready(DXWindowContext_Paint(after, c, OkScript, OkScript).win[c])]_vars

\* CreateSwapChain reported the device removed while a built surface was
\* being resized.
C19_Witness ==
    /\ op.name = "OnResize"
    /\ op.exc.kind = "DeviceLostException"
    /\ op.log[Len(op.log)].ev = "CreateSwapChain"
    /\ proc = "terminated"
    /\ win[op.ctx].pixelSize = op.arg
    /\ win[op.ctx].d2dContext = NullContext
    /\ Initialized(win[op.ctx].resources)

----------------------------------------------------------------------------
\* The device instances of the objects window context wc draws with.
InstancesUsed(wc) ==
    ({wc.d2dContext.inst, wc.swapChain.inst}
        \cup {wc.resources[i].ptr.inst : i \in DOMAIN wc.resources}) \ {0}

(* C20.  A window context's ResetDevice() resets the device only in        *)
(* reaction to a loss of that device instance: when a Paint() resets an    *)
(* initialized device, the objects the window drew with all belonged to    *)
(* that instance, and none to an instance discarded before (whose loss a   *)
(* sibling has already recovered from by creating the instance that is     *)
(* now reset).                                                             *)
C20_NoResetOfFreshDevice ==
    [][\A c \in Contexts :
        (op'.name = "OnPaint" /\ op'.ctx = c)
        => \A k \in Places(op'.log, "DXDevice::Reset") :
            (op'.log[k].inst # 0 /\ Count(SubSeq(op'.log, 1, k), "PaintInternal") = 1)
            => \/ InstancesUsed(win[c]) = {}
               \/ InstancesUsed(win[c]) = {op'.log[k].inst}]_vars

----------------------------------------------------------------------------
\* The places of the log that belong to the PaintInternal begun at place p.
Attempt(log, p) ==
    {i \in DOMAIN log :
        /\ i >= p
        /\ \A j \in Places(log, "PaintInternal") : j <= p \/ j > i}

(* C21.  RenderContent is called only on a ready surface (swap chain and   *)
(* device context present) whose registered resources are all initialized, *)
(* right after the BeginDraw and right before the EndDraw of the same      *)
(* PaintInternal; at most once in a PaintInternal, hence at most twice in  *)
(* a Paint().  No other operation calls it.                                *)
C21_RenderContentGuarded ==
    /\ \A i \in Places(op.log, "RenderContent") :
        /\ op.name \in {"Paint", "OnPaint"}
        /\ op.log[i].ready
        /\ op.log[i].initialized
        /\ i > 1 /\ op.log[i - 1].ev = "BeginDraw"
        /\ i < Len(op.log) /\ op.log[i + 1].ev = "EndDraw"
    /\ \A p \in Places(op.log, "PaintInternal") :
        Cardinality(Attempt(op.log, p) \cap Places(op.log, "RenderContent")) <= 1
    /\ Count(op.log, "PaintInternal") <= 2
    /\ Count(op.log, "RenderContent") <= 2

\* A Paint() of a window with a brush registered since its surface was
\* built rendered twice: before the device loss and after the recovery.
C21_Witness ==
    /\ op.name = "Paint"
    /\ Count(op.log, "RenderContent") = 2
    /\ Len(win[op.ctx].resources) = 2
    /\ \E i \in Places(op.log, "Initialize") :
         op.log[i].res = 2 /\ i < Least(Places(op.log, "RenderContent"))
    /\ op.log[3].ev = "ResourceList2D::EnsureInitialized"

----------------------------------------------------------------------------
(* C22.  Whenever a window's surface is ready, every initialized resource  *)
(* of the window is a brush of the device instance its device context      *)
(* belongs to: no brush of a discarded device instance is kept with a      *)
(* context built on a newer one.                                           *)
C22_ResourcesOfContextDevice ==
    \A c \in Contexts :
        Ready(win[c])
        => \A i \in DOMAIN win[c].resources :
            Resource2DBase_IsInitialized(win[c].resources[i])
            => win[c].resources[i].ptr.inst = win[c].d2dContext.inst

----------------------------------------------------------------------------
(* C24.  Whenever a window context has a device context, the DPI set on    *)
(* that device context is the window's stored DPI: the context is created  *)
(* with the stored DPI, and every change of the DPI is pushed to a context *)
(* that exists.                                                            *)
C24_ContextDpiIsStoredDpi ==
    \A c \in Contexts :
        win[c].d2dContext # NullContext
        => win[c].d2dContext.dpi = win[c].dpi

\* A surface was built while the stored DPI was 192.
C24_Witness ==
    /\ op.name \in {"OnPaint", "OnResize"}
    /\ op.exc = NoException /\ proc = "running"
    /\ Has(op.log, "CreateDeviceContext")
    /\ win[op.ctx].dpi = 192
    /\ win[op.ctx].d2dContext.dpi = 192

----------------------------------------------------------------------------
(* Painting after device losses.  A hardware device instance that was lost *)
(* stays lost, and a call fails with a device-lost HRESULT exactly when it *)
(* uses an object of a lost instance; creating a device succeeds and gives *)
(* an instance that is not lost during the call.  An instance the DXDevice *)
(* has discarded was lost; lostNow says whether the instance the DXDevice  *)
(* holds when WM_PAINT arrives has been lost since it was created.         *)

\* Instance inst, which existed when the handler was entered, is lost.
IsLost(c, inst, lostNow) ==
    /\ inst # 0
    /\ inst \in Machine(c).insts
    /\ inst # device.d2dDevice \/ lostNow

\* The first call of a PaintInternal of c on machine m that uses an object
\* of a lost instance, as the script that fails it.
LossScript(m, c, lostNow) ==
    LET w == m.win[c]
        lostBrush == \E i \in DOMAIN w.resources :
                        IsLost(c, w.resources[i].ptr.inst, lostNow)
        missing == {i \in DOMAIN w.resources :
                        ~Resource2DBase_IsInitialized(w.resources[i])}
        drawing == IF lostBrush
                   THEN [OkScript EXCEPT !.site = "EndDraw",
                                         !.hr = LostCode("EndDraw")]
                   ELSE OkScript
    IN
    IF w.d2dContext # NullContext
    THEN IF IsLost(c, w.d2dContext.inst, lostNow)
         THEN IF missing # {}
              THEN [OkScript EXCEPT !.site = "CreateSolidColorBrush",
                                    !.hr = LostCode("CreateSolidColorBrush"),
                                    !.at = Least(missing)]
              ELSE [OkScript EXCEPT !.site = "EndDraw",
                                    !.hr = LostCode("EndDraw")]
         ELSE drawing
    ELSE IF IsLost(c, m.device.dxgiDevice, lostNow)
         THEN [OkScript EXCEPT !.site = "GetAdapter",
                               !.hr = LostCode("GetAdapter")]
         ELSE drawing

\* The script of the PaintInternal that follows the ResetDevice() of a
\* Paint() whose first PaintInternal left m1.
RetryLossScript(m1, c, lostNow) ==
    LossScript(DXWindowContext_ResetDevice(Caught(m1), c), c, lostNow)

PaintAfterLoss(m, c, lostNow) ==
    DXWindowContext_Paint(m, c, LossScript(m, c, lostNow),
        RetryLossScript(DXWindowContext_PaintInternal(m, c, LossScript(m, c, lostNow)),
                        c, lostNow))

\* WM_PAINT
OnPaintAfterLoss(c) ==
    /\ Dispatching
    /\ \E lostNow \in BOOLEAN :
         Finish(PaintAfterLoss(Machine(c), c, lostNow), "OnPaint", c,
                [lost |-> lostNow])

NextLoss ==
    \/ \E c \in Contexts : OnPaintAfterLoss(c) \/ OnDpiChanged(c)
    \/ ReturnToLoop

SpecLoss == Init /\ [][NextLoss]_vars

(* C23.  Where calls fail only by using an object of a lost device         *)
(* instance, every WM_PAINT returns normally from Paint() with the         *)
(* window's surface ready and its captured generation equal to the         *)
(* device's, however many device losses and recoveries by the sibling      *)
(* happened since the window last painted.                                 *)
C23_PaintRecovers ==
    [][\A c \in Contexts :
        (op'.name = "OnPaint" /\ op'.ctx = c)
        => /\ op'.exc = NoException
           /\ proc' = "running"
           /\ Ready(win'[c])
           /\ win'[c].deviceGeneration = device'.generation]_vars

====
